---- MODULE Spec2Model ----
(***************************************************************************)
(* Model of app.py: a Flask application that receives GitHub webhook       *)
(* deliveries, stores one document per recognised event in the MongoDB     *)
(* collection github_events.events, and serves the stored documents to a   *)
(* polling UI.                                                             *)
(*                                                                         *)
(* Python's None (and a key that a document does not have) is the empty    *)
(* tuple; a present value x is the one-element tuple <<x>>.  Text whose    *)
(* characters matter (refs, branch names) is a sequence of one-character   *)
(* strings; a timestamp string is a sequence of its lexical tokens.        *)
(***************************************************************************)
EXTENDS Integers, Sequences, FiniteSets

VARIABLES store,    \* collection: the documents of github_events.events, in insertion order
          request,  \* the request most recently handled
          status,   \* HTTP status of the response to it
          reply,    \* what the response body says, when it is not an event list
          events    \* the event list returned by the last GET /events

vars == <<store, request, status, reply, events>>

None == <<>>
Some(x) == <<x>>

\* Largest number of documents the collection is explored with.
MaxStore == 2

\* .limit(20)
DefaultLimit == 20

(***************************************************************************)
(* Text                                                                    *)
(***************************************************************************)
RefsHeadsMain == <<"r", "/", "h", "/", "m">>
RefTrailing == <<"r", "/">>
Main == <<"m">>
FeatureX == <<"f", "x">>

Range(s) == {s[i] : i \in 1..Len(s)}

Last(s) == s[Len(s)]

\* str.split(sep) for a one-character separator
RECURSIVE split(_, _)
split(s, sep) ==
    IF s = <<>> THEN << <<>> >>
    ELSE LET rest == split(Tail(s), sep) IN
         IF Head(s) = sep THEN << <<>> >> \o rest
         ELSE << <<Head(s)>> \o Head(rest) >> \o Tail(rest)

\* str(pr["id"]) on the numeric pull-request ids of the inputs
str(n) == CASE n = 42 -> "42" [] n = 7 -> "7"

(***************************************************************************)
(* Timestamps.  A timestamp string is <<clock>> or <<clock, designator>>;  *)
(* instants are whole hours UTC.                                           *)
(***************************************************************************)
ClockValue(tok) == CASE tok = "T01:00" -> 1 [] tok = "T02:00" -> 2 [] tok = "T03:00" -> 3
Clocks == {"T01:00", "T02:00", "T03:00"}
OffsetValue(tok) == CASE tok = "+00:00" -> 0 [] tok = "+01:00" -> 1
Offsets == {"+00:00", "+01:00"}

\* str.replace(old, new) on tokens
replace(s, old, new) == [i \in 1..Len(s) |-> IF s[i] = old THEN new ELSE s[i]]

\* datetime.fromisoformat: raises ValueError on anything but a date-time with
\* an optional numeric offset; a naive date-time is stored by the driver as UTC
fromisoformat(s) ==
    IF Len(s) = 1 /\ s[1] \in Clocks
        THEN [raised |-> FALSE, value |-> ClockValue(s[1])]
    ELSE IF Len(s) = 2 /\ s[1] \in Clocks /\ s[2] \in Offsets
        THEN [raised |-> FALSE, value |-> ClockValue(s[1]) - OffsetValue(s[2])]
    ELSE [raised |-> TRUE, value |-> 0]

\* A parser that swallows the failure and yields the epoch.
parse_lenient(timestamp_str) ==
    IF timestamp_str = None THEN [raised |-> FALSE, value |-> 0]
    ELSE [raised |-> FALSE, value |-> fromisoformat(replace(timestamp_str[1], "Z", "+00:00")).value]

\* timestamp_str is None or Some(string); None.replace raises AttributeError
parse_github_timestamp(timestamp_str) ==
    IF timestamp_str = None THEN [raised |-> TRUE, value |-> 0]
    ELSE fromisoformat(replace(timestamp_str[1], "Z", "+00:00"))

(***************************************************************************)
(* Requests                                                                *)
(***************************************************************************)
TsStrings == { <<"T03:00", "+01:00">>, <<"yesterday">> }
MalformedTs == { <<"yesterday">> }

PushPayloads ==
    [kind : {"push"},
     head_commit : [id : {"abc123"}, timestamp : TsStrings],
     pusher : [name : {"alice"}],
     ref : {RefsHeadsMain, RefTrailing, Main}]

\* a pull request that is not merged has a null merged_at
PullRequests ==
    {pr \in [id : {42},
             user : [login : {"bob"}],
             head : [ref : {FeatureX}],
             base : [ref : {Main}],
             created_at : { <<"T01:00", "Z">>, <<"yesterday">> },
             merged_at : {None, Some(<<"T02:00", "Z">>), Some(<<"yesterday">>)},
             merged : BOOLEAN] :
        pr.merged \/ pr.merged_at = None}

PullRequestPayloads ==
    [kind : {"pull_request"},
     action : {"opened", "synchronize", "closed", "labeled"},
     pull_request : PullRequests]

\* no JSON body at all, a body that is not JSON, and the empty document {}
NoDocumentBodies == { [kind |-> "missing"], [kind |-> "invalid"], [kind |-> "empty"] }

Bodies == NoDocumentBodies \cup PushPayloads \cup PullRequestPayloads

EventTypes == {"push", "pull_request", "ping"}

Cutoffs == {None, Some(1), Some(2)}

(***************************************************************************)
(* Documents                                                               *)
(***************************************************************************)
Doc(rid, author, action, from, to, ts) ==
    [_id |-> None, request_id |-> rid, author |-> author, action |-> action,
     from_branch |-> from, to_branch |-> to, timestamp |-> ts, test |-> None]

TestDoc ==
    [_id |-> None, request_id |-> None, author |-> None, action |-> None,
     from_branch |-> None, to_branch |-> None, timestamp |-> None,
     test |-> Some("MongoDB connected")]

(***************************************************************************)
(* POST /webhook                                                           *)
(***************************************************************************)
\* request.json: no JSON body is 415 Unsupported Media Type, a body that does
\* not parse is 400 Bad Request, both raised before the handler's own check
request_json_raises(body) == body.kind \in {"missing", "invalid"}

request_json_status(body) == IF body.kind = "missing" THEN 415 ELSE 400

\* A check that lets every parsed body through.
not_payload_never(body) == FALSE

\* `not payload`: the parsed document is empty
not_payload(body) == body.kind = "empty"

\* A ref used whole as the branch name.
to_branch_whole_ref(ref) == ref

\* payload["ref"].split("/")[-1]
to_branch_of_ref(ref) == Last(split(ref, "/"))

\* Every closed pull request taken for a merge.
is_merge_any_close(action, pr) == action = "closed"

\* action == "closed" and pr["merged"]
is_merge(action, pr) == action = "closed" /\ pr.merged

\* The merge record stamped with the creation time.
merge_timestamp_created(pr) == Some(pr.created_at)

\* pr["merged_at"]
merge_timestamp(pr) == pr.merged_at

Raised == [status |-> 500, reply |-> "Internal Server Error", data |-> None]
Success(data) == [status |-> 200, reply |-> "success", data |-> data]

\* The push branch; a payload without the push keys raises KeyError
push_event(payload) ==
    IF payload.kind # "push" THEN Raised
    ELSE LET ts == parse_github_timestamp(Some(payload.head_commit.timestamp)) IN
         IF ts.raised THEN Raised
         ELSE Success(Some(Doc(Some(payload.head_commit.id), Some(payload.pusher.name),
                               Some("PUSH"), None, Some(to_branch_of_ref(payload.ref)),
                               Some(ts.value))))

\* The pull_request branch; a payload without the pull-request keys raises KeyError
pull_request_event(payload) ==
    IF payload.kind # "pull_request" THEN Raised
    ELSE LET pr == payload.pull_request
             action == payload.action
         IN  IF action \in {"opened", "synchronize"}
             THEN LET ts == parse_github_timestamp(Some(pr.created_at)) IN
                  IF ts.raised THEN Raised
                  ELSE Success(Some(Doc(Some(str(pr.id)), Some(pr.user.login),
                                        Some("PULL_REQUEST"), Some(pr.head.ref),
                                        Some(pr.base.ref), Some(ts.value))))
             ELSE IF is_merge(action, pr)
             THEN LET ts == parse_github_timestamp(merge_timestamp(pr)) IN
                  IF ts.raised THEN Raised
                  ELSE Success(Some(Doc(Some(str(pr.id)), Some(pr.user.login),
                                        Some("MERGE"), Some(pr.head.ref),
                                        Some(pr.base.ref), Some(ts.value))))
             ELSE Success(None)

\* The handler up to the insert: the response and the record to store, if any
github_webhook(event_type, payload) ==
    IF request_json_raises(payload)
        THEN [status |-> request_json_status(payload), reply |-> "error", data |-> None]
    ELSE IF not_payload(payload)
        THEN [status |-> 400, reply |-> "Invalid payload", data |-> None]
    ELSE IF event_type = "push" THEN push_event(payload)
    ELSE IF event_type = "pull_request" THEN pull_request_event(payload)
    ELSE Success(None)

(***************************************************************************)
(* The collection                                                          *)
(***************************************************************************)
\* The driver gives each inserted document a fresh _id
WithId(docs, doc) == [doc EXCEPT !._id = Some(Len(docs) + 1)]

SameEvent(d, e) == [d EXCEPT !._id = None] = [e EXCEPT !._id = None]

\* A write that replaces a stored record of the same request_id.
upsert_one(docs, doc) ==
    IF \E i \in 1..Len(docs) : docs[i].request_id = doc.request_id
    THEN LET i == CHOOSE k \in 1..Len(docs) : docs[k].request_id = doc.request_id
         IN  [docs EXCEPT ![i] = [doc EXCEPT !._id = docs[i]._id]]
    ELSE Append(docs, WithId(docs, doc))

\* collection.insert_one(doc)
insert_one(docs, doc) == Append(docs, WithId(docs, doc))

\* Sort key of a document: a missing timestamp sorts below every instant
SortKey(doc) == IF doc.timestamp = None THEN -1 ELSE doc.timestamp[1]

IsDescending(docs) ==
    \A i, j \in 1..Len(docs) : i < j => SortKey(docs[i]) >= SortKey(docs[j])

Orderings(docs) ==
    LET n == Len(docs)
        Perms == {p \in [1..n -> 1..n] : \A i, j \in 1..n : i # j => p[i] # p[j]}
    IN  {[i \in 1..n |-> docs[p[i]]] : p \in Perms}

\* The documents left in insertion order.
sort_none(docs) == {docs}

\* .sort("timestamp", -1): the order among equal timestamps is the server's choice
sort_timestamp_desc(docs) == {r \in Orderings(docs) : IsDescending(r)}

\* .limit(n)
limit(docs, n) == SubSeq(docs, 1, IF Len(docs) < n THEN Len(docs) ELSE n)

\* projection {"_id": 0}
project(docs) == [i \in 1..Len(docs) |-> [docs[i] EXCEPT !._id = None]]

\* find({}, {"_id": 0}).sort("timestamp", -1).limit(n): the possible results
recent(docs, n) == {project(limit(r, n)) : r \in sort_timestamp_desc(docs)}

\* jsonify renders a datetime as an HTTP date
jsonify(docs) ==
    [i \in 1..Len(docs) |->
        [docs[i] EXCEPT !.timestamp =
            IF docs[i].timestamp = None THEN None
            ELSE Some([http_date |-> docs[i].timestamp[1]])]]

\* A poll that returns only the records after the cutoff it was given.
get_events_after(docs, since) ==
    IF since = None THEN {jsonify(r) : r \in recent(docs, DefaultLimit)}
    ELSE {jsonify(r) : r \in recent(SelectSeq(docs, LAMBDA d : SortKey(d) > since[1]),
                                    DefaultLimit)}

\* GET /events: the query string is never read
get_events(docs, since) == {jsonify(r) : r \in recent(docs, DefaultLimit)}

(***************************************************************************)
(* The routes                                                              *)
(***************************************************************************)
Init ==
    /\ store = <<>>
    /\ request = [route |-> "none"]
    /\ status = 0
    /\ reply = ""
    /\ events = <<>>

Webhook ==
    \E event_type \in EventTypes, payload \in Bodies :
        LET out == github_webhook(event_type, payload) IN
        /\ out.data # None => Len(store) < MaxStore
        /\ request' = [route |-> "webhook", event |-> event_type, body |-> payload]
        /\ store' = IF out.data # None THEN insert_one(store, out.data[1]) ELSE store
        /\ status' = out.status
        /\ reply' = out.reply
        /\ events' = <<>>

GetEvents ==
    \E since \in Cutoffs :
        /\ request' = [route |-> "events", since |-> since]
        /\ events' \in get_events(store, since)
        /\ status' = 200
        /\ reply' = "events"
        /\ UNCHANGED store

ServeUi ==
    /\ request' = [route |-> "/"]
    /\ status' = 200
    /\ reply' = "index.html"
    /\ events' = <<>>
    /\ UNCHANGED store

TestDb ==
    /\ Len(store) < MaxStore
    /\ request' = [route |-> "test-db"]
    /\ store' = insert_one(store, TestDoc)
    /\ status' = 200
    /\ reply' = "MongoDB working!"
    /\ events' = <<>>

Next == Webhook \/ GetEvents \/ ServeUi \/ TestDb

Spec == Init /\ [][Next]_vars

(***************************************************************************)
(* Properties                                                              *)
(***************************************************************************)
Count(s, x) == Cardinality({i \in 1..Len(s) : s[i] = x})

SameBag(a, b) ==
    /\ Len(a) = Len(b)
    /\ \A x \in Range(a) \cup Range(b) : Count(a, x) = Count(b, x)

IsWebhook(r) == r.route = "webhook"

IsPoll(r) == r.route = "events"

\* the delivery is a pull_request event carrying a pull-request document
IsPullRequestDelivery(r) ==
    IsWebhook(r) /\ r.event = "pull_request" /\ r.body.kind = "pull_request"

\* the delivery is a push event carrying a push document
IsPushDelivery(r) == IsWebhook(r) /\ r.event = "push" /\ r.body.kind = "push"

ClosedUnmerged(r) ==
    IsPullRequestDelivery(r) /\ r.body.action = "closed" /\ ~r.body.pull_request.merged

ClosedMerged(r) ==
    IsPullRequestDelivery(r) /\ r.body.action = "closed" /\ r.body.pull_request.merged

WellFormed(ts) == ts # None /\ ts[1] \notin MalformedTs

\* the timestamp the record of the delivery would carry is a malformed string
MalformedEvent(r) ==
    \/ IsPushDelivery(r) /\ r.body.head_commit.timestamp \in MalformedTs
    \/ /\ IsPullRequestDelivery(r)
       /\ r.body.action \in {"opened", "synchronize"}
       /\ r.body.pull_request.created_at \in MalformedTs
    \/ /\ ClosedMerged(r)
       /\ r.body.pull_request.merged_at # None
       /\ r.body.pull_request.merged_at[1] \in MalformedTs

\* the delivery normalizes to a record
Normalizes(r) == IsWebhook(r) /\ github_webhook(r.event, r.body).data # None

AppendedOne ==
    /\ Len(store') = Len(store) + 1
    /\ SubSeq(store', 1, Len(store)) = store

\* C1: a delivery that normalizes to a record appends exactly that record as
\* one new entry and leaves every earlier entry as it was, whatever the store
\* already holds (no merge, no update, no deduplication).
C1_AppendNeverMerges ==
    [][Normalizes(request') =>
          /\ AppendedOne
          /\ SameEvent(Last(store'), github_webhook(request'.event, request'.body).data[1])]_vars

\* C1 witness: the same webhook delivered twice has left two identical records.
C1_DuplicateStored ==
    /\ Len(store) = 2
    /\ IsWebhook(request)
    /\ store[1].action # None
    /\ SameEvent(store[1], store[2])

\* C2: every stored record has a non-null action, author, request_id and timestamp.
C2_RequiredFieldsNonNull ==
    \A i \in 1..Len(store) :
        /\ store[i].action # None
        /\ store[i].author # None
        /\ store[i].request_id # None
        /\ store[i].timestamp # None

\* C3: for every stored record, from_branch is null iff action is PUSH.
C3_FromBranchNullIffPush ==
    \A i \in 1..Len(store) :
        (store[i].from_branch = None) <=> (store[i].action = Some("PUSH"))

JsonKey(doc) == IF doc.timestamp = None THEN -1 ELSE doc.timestamp[1].http_date

\* C5 as stated: a poll that carries a cutoff returns no record with
\* timestamp <= cutoff and every stored record with timestamp > cutoff.
C5_SinceCursor ==
    (IsPoll(request) /\ request.since # None) =>
        /\ \A i \in 1..Len(events) :
              events[i].timestamp # None => JsonKey(events[i]) > request.since[1]
        /\ Len(events) = Cardinality({i \in 1..Len(store) : SortKey(store[i]) > request.since[1]})

\* C5 amended: a poll, with or without a cutoff, returns at most 20 records
\* sorted by timestamp descending, and all stored records when there are no
\* more than 20 of them.
C5_CutoffIgnored ==
    IsPoll(request) =>
        /\ Len(events) <= DefaultLimit
        /\ \A i, j \in 1..Len(events) : i < j => JsonKey(events[i]) >= JsonKey(events[j])
        /\ Len(store) <= DefaultLimit => SameBag(events, jsonify(project(store)))

\* C5 witness: a poll with a cutoff returned a record that is not after it.
C5_ReturnedOldRecord ==
    /\ IsPoll(request)
    /\ request.since # None
    /\ \E i \in 1..Len(events) :
          events[i].timestamp # None /\ JsonKey(events[i]) <= request.since[1]

\* C6: a pull_request delivery closed with merged false leaves the store
\* unchanged and is acknowledged as success.
C6_ClosedUnmergedNoRecord ==
    [][ClosedUnmerged(request') =>
          store' = store /\ status' = 200 /\ reply' = "success"]_vars

\* C6 witness: such a delivery was acknowledged while the store held a record.
C6_ClosedUnmergedAcked ==
    ClosedUnmerged(request) /\ status = 200 /\ Len(store) > 0

C8_MalformedTimestampFails ==
    [][MalformedEvent(request') =>
          store' = store /\ status' = 500 /\ reply' # "success"]_vars

\* C8 witness: a push with a malformed head-commit timestamp failed.
C8_MalformedPushFailed ==
    /\ IsPushDelivery(request)
    /\ request.body.head_commit.timestamp \in MalformedTs
    /\ status = 500

\* C9: a pull request closed with merged true yields a MERGE record whose
\* timestamp is the instant of merged_at.
C9_MergeUsesMergedAt ==
    [][(ClosedMerged(request') /\ WellFormed(request'.body.pull_request.merged_at)) =>
          /\ status' = 200
          /\ AppendedOne
          /\ Last(store').action = Some("MERGE")
          /\ Last(store').timestamp =
                Some(parse_github_timestamp(request'.body.pull_request.merged_at).value)]_vars

\* C9 witness: a MERGE record was stored whose timestamp differs from the
\* pull request's creation time.
C9_MergeStored ==
    /\ ClosedMerged(request)
    /\ status = 200
    /\ Len(store) > 0
    /\ Last(store).action = Some("MERGE")
    /\ WellFormed(Some(request.body.pull_request.created_at))
    /\ Last(store).timestamp #
          Some(parse_github_timestamp(Some(request.body.pull_request.created_at)).value)

\* b is the part of ref after its last "/" (all of ref when it has none)
IsFinalSegment(b, ref) ==
    /\ "/" \notin Range(b)
    /\ \E k \in 0..Len(ref) :
          /\ SubSeq(ref, k + 1, Len(ref)) = b
          /\ k = 0 \/ ref[k] = "/"

\* C10: a push yields a record whose from_branch is null and whose to_branch
\* is the final "/"-delimited segment of the ref.
C10_PushBranches ==
    [][(IsPushDelivery(request') /\ WellFormed(Some(request'.body.head_commit.timestamp))) =>
          /\ status' = 200
          /\ AppendedOne
          /\ Last(store').from_branch = None
          /\ Last(store').to_branch # None
          /\ IsFinalSegment(Last(store').to_branch[1], request'.body.ref)]_vars

\* C10 witness: a push to refs/heads/main was stored with to_branch main.
C10_PushToMainStored ==
    /\ IsPushDelivery(request)
    /\ request.body.ref = RefsHeadsMain
    /\ status = 200
    /\ Len(store) > 0
    /\ Last(store).action = Some("PUSH")
    /\ Last(store).to_branch = Some(Main)

====
